---- MODULE Spec2Model ----
(***************************************************************************)
(* The jumpy game session: the host's fixed-timestep session stage         *)
(* (src/src/session.rs) driving one bones world, and the player "dead"     *)
(* state module (src/core/src/player/state/states/dead.rs) that runs       *)
(* inside every advance of that world.                                     *)
(*                                                                         *)
(* GameSession (new, advance), PlayerEvents and the system that ages       *)
(* PlayerState live in the jumpy_core crate outside the files at hand;     *)
(* they are modelled from the written specification and marked so.         *)
(***************************************************************************)
EXTENDS Integers, Sequences, FiniteSets, TLC

\* ------------------------------------------------------------------ bounds
\* Number of player entities a session spawns.
NumPlayers == 2
\* Largest x coordinate of a hit origin (coordinates are 0..MaxX).
MaxX == 1
\* Largest state age at which a fixed step is still started.
MaxAge == 81
\* Number of slots of PlayerInputs.players (participants 0..MaxParticipants-1).
MaxParticipants == 3
\* Largest state age at which the host-side specifications still start a step.
MaxTicks == 2
\* Largest number of audio events pushed in one run.
MaxSounds == 3

\* --------------------------------------------------------- program constants
\* dead.rs:49  `if state.age >= 80`
DespawnAge == 80

\* dead.rs:3  `pub const ID: Key = key!("core::dead")`
ID == "core::dead"
\* The state a freshly spawned player is in (any id other than ID).
SpawnState == "core::idle"
\* dead.rs:43 and dead.rs:45
DeathSpine == "death_spine"
DeathBelly == "death_belly"
\* The animation a freshly spawned player plays.
SpawnAnimation == "idle"

Ents == 1..NumPlayers
Xs == 0..MaxX
\* Option<Vec2>: None is <<>>, Some(v) is <<v.x>>.
None == <<>>
Some(x) == <<x>>
HitFroms == {None} \cup {Some(x) : x \in Xs}
\* The ages at which the game logic outside this module marks a player killed.
KillAges == {0, 1, DespawnAge - 1, DespawnAge, MaxAge}

VARIABLES
    host_session,   \* the Session resource is in the host (bevy) world
    held,           \* update_game's local `session` holds the removed resource
    menu_camera,    \* MenuCamera's Camera.is_active
    world,          \* session.world: the bones world of the session
    twin,           \* the same session in an independent second run
    age_first,      \* the stepper ages PlayerState before the transitions (else after the flush)
    pc,             \* position of the fixed-timestep session stage
    pre,            \* history: session.world when update_game took the session
    handled,        \* history: entities the dead handler got past its state test in this advance
    phases,         \* history: the phases the running advance has completed, in order
    dead_ticks,     \* history: per entity, advances since the one that made it dead (-1: not dead)
    playing,        \* the host is in EngineState::InGame and InGameState::Playing
    session_info,   \* the GameSessionInfo the session keeps (None: no session)
    player_inputs,  \* session.world's PlayerInputs resource: .players, per participant
    current_editor_input, \* the host's CurrentEditorInput resource (an Option)
    audio_events,   \* session.world's AudioEvents resource: .queue
    seen_input,     \* history: the PlayerInputs the advance of this step read (None: none ran)
    written,        \* history: the PlayerInputs update_input left in this step (None: none)
    sampled,        \* history: what the collectors reported to the session's last update_input
    edits,          \* history: update_input edits since the step of the last advance (counted up to 2)
    ran,            \* history: the systems the stage has run in this step, in order
    pushed,         \* history: every audio event pushed in this run, in order
    played,         \* history: every sound handed to the audio channel in this run, in order
    drains,         \* history: what the drains since the last advance yielded (the last two)
    restarted,      \* history: the last step was a restart of a session with a killed, aged player
    stopped         \* history: the last step was a stop of a session

\* The variables of the advance under way and of the dead-state module.
deadvars == <<twin, age_first, pre, handled, phases, dead_ticks>>
\* The variables the input systems work on.
inputvars == <<player_inputs, current_editor_input, seen_input, written, sampled, edits>>
\* The variables the audio boundary works on.
audiovars == <<audio_events, pushed, played, drains>>

vars == <<host_session, held, menu_camera, world, twin, age_first, pc, pre, handled,
          phases, dead_ticks, playing, session_info, player_inputs, current_editor_input,
          audio_events, seen_input, written, edits, ran, pushed, played, drains,
          restarted, sampled, stopped>>

\* ------------------------------------------------------------------ helpers
Restrict(f, S) == [e \in (DOMAIN f) \cap S |-> f[e]]

Range(s) == {s[i] : i \in DOMAIN s}

\* Every order in which one pass over the entities may visit them.
Orders == {o \in [1..NumPlayers -> Ents] : \A i, j \in 1..NumPlayers : o[i] = o[j] => i = j}

\* A world with no entity: the value of `world` while no session exists.
NoWorld ==
    [entities |-> {}, player_states |-> <<>>, killed_players |-> <<>>, sprites |-> <<>>,
     transform |-> <<>>, animations |-> <<>>, player_events |-> <<>>]

\* ------------------------------------------------------- the player inputs
\* The indices of PlayerInputs.players.
Participants == 0..(MaxParticipants - 1)

\* session.rs:93  core_meta.players: the player metadata the game ships, by
\* index; a handle is modelled by the index it stands for.
core_meta_players == [i \in 0..(NumPlayers - 1) |-> i]

\* GameSessionInfo.player_info, per participant: the player chosen in the
\* selection screen, if any.
PlayerInfos == {None} \cup {Some(core_meta_players[i]) : i \in DOMAIN core_meta_players}

\* session.rs:102  the participants a PlayerInputCollector entity exists for.
Collectors == {0}

\* The x component of a move axis; 0 is the zero vector.
MoveDirs == {0, 1}

\* ActionState<PlayerAction> of one collector: what the devices report.
ActionStates == [jump : BOOLEAN, grab : BOOLEAN, shoot : BOOLEAN, move : MoveDirs]

\* No button held, no move.
Released == [jump |-> FALSE, grab |-> FALSE, shoot |-> FALSE, move |-> 0]

\* CurrentEditorInput: nothing, or one editor action.
EditorInputs == {None, Some(0)}

\* PlayerControl::default()
PlayerControl_default ==
    [jump_pressed |-> FALSE, jump_just_pressed |-> FALSE,
     grab_pressed |-> FALSE, grab_just_pressed |-> FALSE,
     shoot_pressed |-> FALSE, shoot_just_pressed |-> FALSE,
     move_direction |-> 0, just_moved |-> FALSE]

\* PlayerInputs of a session made from info: a participant is active iff a
\* player was chosen for it.
PlayerInputs_new(info) ==
    [p \in Participants |->
        [active |-> info.player_info[p] # None,
         selected_player |-> info.player_info[p],
         editor_input |-> None,
         control |-> PlayerControl_default]]

\* Mutant: the first two participants get the default players whenever one of
\* them is inactive.
ensure_2_players_edit_any(inputs) ==
    IF \E p \in DOMAIN core_meta_players : ~inputs[p].active
    THEN [p \in DOMAIN inputs |->
            IF p \in DOMAIN core_meta_players
            THEN [inputs[p] EXCEPT !.active = TRUE,
                                   !.selected_player = Some(core_meta_players[p])]
            ELSE inputs[p]]
    ELSE inputs

\* session.rs:90-95  the body of ensure_2_players on the PlayerInputs
\* resource; `for i in 0..2` visits the indices of core_meta_players.
ensure_2_players_edit(inputs) ==
    IF \A p \in DOMAIN inputs : ~inputs[p].active
    THEN [p \in DOMAIN inputs |->
            IF p \in DOMAIN core_meta_players
            THEN [inputs[p] EXCEPT !.active = TRUE,
                                   !.selected_player = Some(core_meta_players[p])]
            ELSE inputs[p]]
    ELSE inputs

\* Vec2::length_squared of a move axis.
length_squared(v) == v * v

\* Mutant: the just-pressed flags report the held button, not its edge.
control_edit_level(control, action_state) ==
    LET was_moving == length_squared(control.move_direction) > 0
        is_moving == length_squared(action_state.move) > 0
    IN  [jump_pressed |-> action_state.jump,
         jump_just_pressed |-> action_state.jump,
         grab_pressed |-> action_state.grab,
         grab_just_pressed |-> action_state.grab,
         shoot_pressed |-> action_state.shoot,
         shoot_just_pressed |-> action_state.shoot,
         move_direction |-> action_state.move,
         just_moved |-> ~was_moving /\ is_moving]

\* session.rs:117-134  the edit of one participant's control from the
\* ActionState of its collector.
control_edit(control, action_state) ==
    LET was_moving == length_squared(control.move_direction) > 0
        is_moving == length_squared(action_state.move) > 0
    IN  [jump_pressed |-> action_state.jump,
         jump_just_pressed |-> action_state.jump /\ ~control.jump_pressed,
         grab_pressed |-> action_state.grab,
         grab_just_pressed |-> action_state.grab /\ ~control.grab_pressed,
         shoot_pressed |-> action_state.shoot,
         shoot_just_pressed |-> action_state.shoot /\ ~control.shoot_pressed,
         move_direction |-> action_state.move,
         just_moved |-> ~was_moving /\ is_moving]

\* session.rs:111-136  the closure update_input hands to session.update_input:
\* participant 0 gets the editor input, every participant with a collector
\* gets its control edited.
update_input_edit(inputs, editor_input, action_states) ==
    [p \in DOMAIN inputs |->
        LET q == IF p = 0 THEN [inputs[p] EXCEPT !.editor_input = editor_input]
                          ELSE inputs[p]
        IN  IF p \in Collectors
            THEN [q EXCEPT !.control = control_edit(@, action_states[p])]
            ELSE q]

\* -------------------------------------------------------- the audio boundary
\* bones::AudioEvent::PlaySound { sound_source, volume }
SoundSources == {"jump", "land"}
Volumes == {1, 2}
AudioEvents == [sound_source : SoundSources, volume : Volumes]

\* The events the in-world systems of one advance push, in order.
Bursts == {<<>>} \cup {<<a>> : a \in AudioEvents}
              \cup {<<a, b>> : a \in AudioEvents, b \in AudioEvents}

\* session.rs:172-174  audio.play(handle).with_volume(volume) for one event:
\* what the effects channel is handed.
audio_play(event) == [handle |-> event.sound_source, volume |-> event.volume]

\* Mutant: the drained queue is played from its back.
RECURSIVE play_queue_reversed(_)
play_queue_reversed(queue) ==
    IF queue = <<>> THEN <<>>
    ELSE play_queue_reversed(Tail(queue)) \o <<audio_play(Head(queue))>>

\* audio_play mapped over a drained queue, front first.
RECURSIVE play_queue(_)
play_queue(queue) ==
    IF queue = <<>> THEN <<>> ELSE <<audio_play(Head(queue))>> \o play_queue(Tail(queue))

\* ------------------------------------------------- the session's bones world
\* GameSessionInfo: the spawn orientation the chosen map gives each player and
\* the players chosen for the participants.
Infos == [flip_x : [Ents -> BOOLEAN], player_info : [Participants -> PlayerInfos]]

\* The sessions of a match in which participants 0 and 1 chose the players of
\* their index.
MatchInfos ==
    {info \in Infos :
        \A p \in Participants :
            info.player_info[p] =
                IF p \in DOMAIN core_meta_players THEN Some(core_meta_players[p]) ELSE None}

\* The sessions on a map that flips no spawn, with any choice of players in
\* which no player is chosen twice.
RosterInfos ==
    {info \in Infos :
        /\ \A e \in Ents : ~info.flip_x[e]
        /\ \A p, q \in Participants :
              info.player_info[p] # None /\ info.player_info[p] = info.player_info[q] => p = q}

\* GameSession::new(info): a fresh world holding the selected players, each with
\* a PlayerState in the spawn state at age 0, a sprite, a transform and an
\* animation bank, no PlayerKilled marker and no pending player event.
GameSession_new(info) ==
    [entities       |-> Ents,
     player_states  |-> [e \in Ents |-> [current |-> SpawnState, age |-> 0]],
     killed_players |-> <<>>,
     sprites        |-> [e \in Ents |-> [flip_x |-> info.flip_x[e]]],
     transform      |-> [e \in Ents |-> [x |-> (e - 1) % (MaxX + 1)]],
     animations     |-> [e \in Ents |-> [current |-> SpawnAnimation]],
     player_events  |-> <<>>]

\* entities.iter_with((..)): the entities, in the visiting order o, that are alive
\* and have every component of the join.
iter_with(w, tables, o) ==
    SelectSeq(o, LAMBDA e : e \in w.entities /\ \A t \in tables : e \in DOMAIN t)

\* commands.insert(ent, PlayerKilled { hit_from }) by the game logic that decides
\* a player dies.
kill_player(w, e, hit_from) ==
    [w EXCEPT !.killed_players =
        [x \in (DOMAIN @) \cup {e} |-> IF x = e THEN [hit_from |-> hit_from] ELSE @[x]]]

\* The stepper's aging of PlayerState: age grows by one in every advance.
update_player_state_age(w) ==
    [w EXCEPT !.player_states =
        [e \in DOMAIN @ |-> IF e \in w.entities THEN [@[e] EXCEPT !.age = @ + 1] ELSE @[e]]]

\* dead.rs:10-12, the loop body applied to the matches from position i on.
RECURSIVE transition_loop(_, _, _)
transition_loop(player_states, matches, i) ==
    IF i > Len(matches) THEN player_states
    ELSE transition_loop([player_states EXCEPT ![matches[i]].current = ID], matches, i + 1)

\* Mutant: the loop returns after its first match.
player_state_transition_first(w, o) ==
    LET matches == iter_with(w, {w.player_states, w.killed_players}, o)
    IN  IF matches = <<>> THEN w
        ELSE [w EXCEPT !.player_states = transition_loop(@, <<Head(matches)>>, 1)]

\* Mutant: the join leaves out the PlayerKilled table.
player_state_transition_all(w, o) ==
    [w EXCEPT !.player_states = transition_loop(@, iter_with(w, {w.player_states}, o), 1)]

\* dead.rs:5-13
player_state_transition(w, o) ==
    [w EXCEPT !.player_states =
        transition_loop(@, iter_with(w, {w.player_states, w.killed_players}, o), 1)]

\* Mutant: the hit side is tested with <= (a hit on equal x counts as from the right).
death_animation_tie(flip_x, x, hit_from) ==
    LET player_on_right == ~flip_x
    IN  IF /\ hit_from # None
           /\ LET is_hit_right == x <= hit_from[1]
              IN  (player_on_right /\ is_hit_right) \/ (~player_on_right /\ ~is_hit_right)
        THEN DeathSpine
        ELSE DeathBelly

\* Mutant: the facing is read without the negation of flip_x.
death_animation_flipped(flip_x, x, hit_from) ==
    LET player_on_right == flip_x
    IN  IF /\ hit_from # None
           /\ LET is_hit_right == x < hit_from[1]
              IN  (player_on_right /\ is_hit_right) \/ (~player_on_right /\ ~is_hit_right)
        THEN DeathSpine
        ELSE DeathBelly

\* dead.rs:32-46: the death animation of a player with the sprite's flip_x, the
\* transform's translation.x and the marker's hit_from.
death_animation(flip_x, x, hit_from) ==
    LET player_on_right == ~flip_x
    IN  IF /\ hit_from # None
           /\ LET is_hit_right == x < hit_from[1]
              IN  (player_on_right /\ is_hit_right) \/ (~player_on_right /\ ~is_hit_right)
        THEN DeathSpine
        ELSE DeathBelly

\* PlayerEvents::despawn(ent): the request is queued.
despawn(player_events, ent) == Append(player_events, ent)

\* Mutant: the despawn test is age == 80.
handle_one_exact(w, player_ent) ==
    LET state == w.player_states[player_ent]
        killed_player == w.killed_players[player_ent]
    IN  IF state.current # ID THEN w
        ELSE LET w1 == IF state.age = 0
                       THEN [w EXCEPT !.animations[player_ent].current =
                                death_animation(w.sprites[player_ent].flip_x,
                                                w.transform[player_ent].x,
                                                killed_player.hit_from)]
                       ELSE w
             IN  IF state.age = DespawnAge
                 THEN [w1 EXCEPT !.player_events = despawn(@, player_ent)]
                 ELSE w1

\* Mutant: the handler kills the entity on the spot instead of queueing the request.
handle_one_immediate(w, player_ent) ==
    LET state == w.player_states[player_ent]
        killed_player == w.killed_players[player_ent]
    IN  IF state.current # ID THEN w
        ELSE LET w1 == IF state.age = 0
                       THEN [w EXCEPT !.animations[player_ent].current =
                                death_animation(w.sprites[player_ent].flip_x,
                                                w.transform[player_ent].x,
                                                killed_player.hit_from)]
                       ELSE w
             IN  IF state.age >= DespawnAge
                 THEN [w1 EXCEPT !.entities = @ \ {player_ent}]
                 ELSE w1

\* Mutant: the animation is chosen in every tick of the dead state.
handle_one_every_tick(w, player_ent) ==
    LET state == w.player_states[player_ent]
        killed_player == w.killed_players[player_ent]
    IN  IF state.current # ID THEN w
        ELSE LET w1 == IF state.age >= 0
                       THEN [w EXCEPT !.animations[player_ent].current =
                                death_animation(w.sprites[player_ent].flip_x,
                                                w.transform[player_ent].x,
                                                killed_player.hit_from)]
                       ELSE w
             IN  IF state.age >= DespawnAge
                 THEN [w1 EXCEPT !.player_events = despawn(@, player_ent)]
                 ELSE w1

\* dead.rs:27-51, the loop body for one match.
handle_one(w, player_ent) ==
    LET state == w.player_states[player_ent]
        killed_player == w.killed_players[player_ent]
    IN  IF state.current # ID THEN w
        ELSE LET w1 == IF state.age = 0
                       THEN [w EXCEPT !.animations[player_ent].current =
                                death_animation(w.sprites[player_ent].flip_x,
                                                w.transform[player_ent].x,
                                                killed_player.hit_from)]
                       ELSE w
             IN  IF state.age >= DespawnAge
                 THEN [w1 EXCEPT !.player_events = despawn(@, player_ent)]
                 ELSE w1

\* Mutant: the loop breaks after its first match.
handle_loop_first(w, matches, i) ==
    IF i > Len(matches) THEN w ELSE handle_one(w, matches[i])

\* dead.rs:24-52, the loop over the matches from position i on.
RECURSIVE handle_loop(_, _, _)
handle_loop(w, matches, i) ==
    IF i > Len(matches) THEN w
    ELSE handle_loop(handle_one(w, matches[i]), matches, i + 1)

\* dead.rs:15-53
handle_player_state(w, o) ==
    handle_loop(w, iter_with(w, {w.player_states, w.animations, w.killed_players}, o), 1)

\* The stepper's flush of the despawn requests: every requested entity goes, with
\* all of its components, and the queue is left empty.
flush_despawns(w) ==
    LET alive == w.entities \ Range(w.player_events)
    IN  [entities       |-> alive,
         player_states  |-> Restrict(w.player_states, alive),
         killed_players |-> Restrict(w.killed_players, alive),
         sprites        |-> Restrict(w.sprites, alive),
         transform      |-> Restrict(w.transform, alive),
         animations     |-> Restrict(w.animations, alive),
         player_events  |-> <<>>]

\* The entities the dead handler treats as dead in a pass over w.
DeadHandled(w) ==
    {e \in w.entities \cap DOMAIN w.player_states \cap DOMAIN w.animations
                      \cap DOMAIN w.killed_players : w.player_states[e].current = ID}

\* ------------------------------------------------------------------- state
Init ==
    /\ host_session = FALSE
    /\ held = FALSE
    /\ menu_camera = TRUE
    /\ world = NoWorld
    /\ twin = NoWorld
    /\ age_first \in BOOLEAN
    /\ pc = "idle"
    /\ pre = NoWorld
    /\ handled = {}
    /\ phases = <<>>
    /\ dead_ticks = [e \in Ents |-> -1]
    /\ playing \in BOOLEAN
    /\ session_info = None
    /\ player_inputs = None
    /\ current_editor_input = None
    /\ audio_events = <<>>
    /\ seen_input = None
    /\ written = None
    /\ sampled = None
    /\ edits = 0
    /\ ran = <<>>
    /\ pushed = <<>>
    /\ played = <<>>
    /\ drains = <<>>
    /\ restarted = FALSE
    /\ stopped = FALSE

\* ------------------------------------------------------- SessionManager
\* session.rs:60-64  SessionManager::start, called by the host between two runs of
\* the session stage; the queued insert_resource is applied with the call.
start(info) ==
    /\ pc = "idle"
    /\ host_session' = TRUE
    /\ menu_camera' = FALSE
    /\ world' = GameSession_new(info)
    /\ twin' = GameSession_new(info)
    /\ dead_ticks' = [e \in Ents |-> -1]
    /\ session_info' = Some(info)
    /\ player_inputs' = PlayerInputs_new(info)
    /\ audio_events' = <<>>
    /\ drains' = <<>>
    /\ edits' = 0
    /\ UNCHANGED <<held, age_first, pc, pre, handled, phases, playing, current_editor_input,
                   seen_input, written, ran, pushed, played>>
    /\ restarted' = FALSE
    /\ sampled' = None
    /\ stopped' = FALSE

\* Mutant: restart starts a session from the first match settings when there is
\* none.
restart_or_start ==
    /\ pc = "idle"
    /\ IF host_session
       THEN /\ world' = GameSession_new(session_info[1])
            /\ twin' = GameSession_new(session_info[1])
            /\ UNCHANGED <<host_session, session_info, player_inputs>>
       ELSE LET info == CHOOSE i \in MatchInfos : TRUE
            IN  /\ host_session' = TRUE
                /\ world' = GameSession_new(info)
                /\ twin' = GameSession_new(info)
                /\ session_info' = Some(info)
                /\ player_inputs' = PlayerInputs_new(info)
    /\ audio_events' = <<>>
    /\ drains' = <<>>
    /\ dead_ticks' = [e \in Ents |-> -1]
    /\ UNCHANGED <<held, menu_camera, age_first, pc, pre, handled, phases, playing,
                   current_editor_input, seen_input, written, edits, ran, pushed, played>>
    /\ restarted' = (host_session /\ \E e \in world.entities :
                         e \in DOMAIN world.killed_players /\ world.player_states[e].age >= 1)
    /\ sampled' = IF host_session THEN sampled ELSE None
    /\ stopped' = FALSE

\* session.rs:67-71  SessionManager::restart: GameSession::restart on the session
\* there is, nothing without one. GameSession::restart makes the world anew from
\* the info the session keeps, and keeps the PlayerInputs.
restart ==
    /\ pc = "idle"
    /\ IF host_session
       THEN /\ world' = GameSession_new(session_info[1])
            /\ twin' = GameSession_new(session_info[1])
            /\ audio_events' = <<>>
            /\ drains' = <<>>
            /\ dead_ticks' = [e \in Ents |-> -1]
       ELSE UNCHANGED <<world, twin, audio_events, drains, dead_ticks>>
    /\ UNCHANGED <<host_session, held, menu_camera, age_first, pc, pre, handled, phases,
                   playing, session_info, player_inputs, current_editor_input, seen_input,
                   written, edits, ran, pushed, played>>
    /\ restarted' = (host_session /\ \E e \in world.entities :
                         e \in DOMAIN world.killed_players /\ world.player_states[e].age >= 1)
    /\ UNCHANGED sampled
    /\ stopped' = FALSE

\* Mutant: stop removes the session and leaves the menu camera as it is.
stop_camera_kept ==
    /\ pc = "idle"
    /\ host_session' = FALSE
    /\ world' = NoWorld
    /\ twin' = NoWorld
    /\ dead_ticks' = [e \in Ents |-> -1]
    /\ session_info' = None
    /\ player_inputs' = None
    /\ audio_events' = <<>>
    /\ drains' = <<>>
    /\ edits' = 0
    /\ UNCHANGED <<held, menu_camera, age_first, pc, pre, handled, phases, playing,
                   current_editor_input, seen_input, written, ran, pushed, played>>
    /\ restarted' = FALSE
    /\ sampled' = None
    /\ stopped' = host_session

\* session.rs:74-77  SessionManager::stop; the queued remove_resource is applied
\* with the call, and the session's world goes with the resource.
stop ==
    /\ pc = "idle"
    /\ host_session' = FALSE
    /\ menu_camera' = TRUE
    /\ world' = NoWorld
    /\ twin' = NoWorld
    /\ dead_ticks' = [e \in Ents |-> -1]
    /\ session_info' = None
    /\ player_inputs' = None
    /\ audio_events' = <<>>
    /\ drains' = <<>>
    /\ edits' = 0
    /\ UNCHANGED <<held, age_first, pc, pre, handled, phases, playing, current_editor_input,
                   seen_input, written, ran, pushed, played>>
    /\ restarted' = FALSE
    /\ sampled' = None
    /\ stopped' = host_session

\* ------------------------------------------------------------ environment
\* The game logic marks a living player killed, between two fixed steps: the
\* marker is there when the next advance begins.
PlayerKilledInsert(e, hit_from) ==
    /\ pc = "idle"
    /\ host_session
    /\ e \in world.entities
    /\ e \notin DOMAIN world.killed_players
    /\ world.player_states[e].age \in KillAges
    /\ world' = kill_player(world, e, hit_from)
    /\ twin' = kill_player(twin, e, hit_from)
    /\ UNCHANGED <<host_session, held, menu_camera, age_first, pc, pre, handled, phases,
                   dead_ticks, playing, session_info, ran>>
    /\ UNCHANGED <<inputvars, audiovars>>
    /\ restarted' = FALSE
    /\ stopped' = FALSE

\* The host enters (b) or leaves (~b) the state InGame / Playing, between two
\* fixed steps.
set_playing(b) ==
    /\ pc = "idle"
    /\ playing # b
    /\ playing' = b
    /\ UNCHANGED <<host_session, held, menu_camera, world, pc, session_info, ran>>
    /\ UNCHANGED <<deadvars, inputvars, audiovars>>
    /\ restarted' = FALSE
    /\ stopped' = FALSE

\* The editor's user interface leaves an action in CurrentEditorInput, between
\* two fixed steps.
editor_action ==
    /\ pc = "idle"
    /\ current_editor_input = None
    /\ current_editor_input' = Some(0)
    /\ UNCHANGED <<host_session, held, menu_camera, world, pc, playing, session_info, ran,
                   player_inputs, seen_input, written, edits>>
    /\ UNCHANGED <<deadvars, audiovars>>
    /\ restarted' = FALSE
    /\ UNCHANGED sampled
    /\ stopped' = FALSE

\* A fixed step is started while no player is older than MaxAge, and none of
\* that age goes unkilled.
AgeInBound ==
    \A e \in world.entities :
        \/ world.player_states[e].age < MaxAge
        \/ world.player_states[e].age = MaxAge /\ e \in DOMAIN world.killed_players

\* No player has reached the age MaxTicks.
TicksInBound == \A e \in world.entities : world.player_states[e].age < MaxTicks

\* ------------------------------------------------------- the session stage
\* Mutant: update_game is added to the stage before update_input.
SessionStageOrder_game_first ==
    <<"ensure_2_players", "update_game", "update_input", "play_sounds">>

\* session.rs:20-32  the systems of SessionStage::Update, a single-threaded
\* stage, in the order they are added.
SessionStageOrder == <<"ensure_2_players", "update_input", "update_game", "play_sounds">>

\* The position of the stage once the named system has run.
After(system) ==
    LET i == CHOOSE k \in DOMAIN SessionStageOrder : SessionStageOrder[k] = system
    IN  IF i = Len(SessionStageOrder) THEN "post" ELSE SessionStageOrder[i + 1]

\* The named system is the next to run: the one after the system that just ran,
\* or the first of the stage when the fixed timestep starts a step.
AtSystem(system) ==
    \/ pc = system
    \/ pc = "idle" /\ SessionStageOrder[1] = system /\ AgeInBound

\* Mutant: no system of the stage has a run condition.
run_criteria_none(system) == TRUE

\* session.rs:23-24 and 29-30  run_in_state(EngineState::InGame) and
\* run_in_state(InGameState::Playing) on ensure_2_players and update_game.
run_criteria(system) ==
    IF system \in {"ensure_2_players", "update_game"} THEN playing ELSE TRUE

\* session.rs:85-97  ensure_2_players.
ensure_2_players ==
    /\ AtSystem("ensure_2_players")
    /\ pc' = After("ensure_2_players")
    /\ IF run_criteria("ensure_2_players")
       THEN /\ ran' = Append(ran, "ensure_2_players")
            /\ player_inputs' = IF host_session THEN ensure_2_players_edit(player_inputs)
                                                ELSE player_inputs
       ELSE UNCHANGED <<ran, player_inputs>>
    /\ UNCHANGED <<host_session, held, menu_camera, world, playing, session_info,
                   current_editor_input, seen_input, written, edits>>
    /\ UNCHANGED <<deadvars, audiovars>>
    /\ restarted' = FALSE
    /\ UNCHANGED sampled
    /\ stopped' = FALSE

\* session.rs:100-137  update_input; action_states is what the collectors'
\* ActionState components hold. session.update_input applies the closure to
\* the PlayerInputs resource of the session's world.
update_input(action_states) ==
    /\ AtSystem("update_input")
    /\ pc' = After("update_input")
    /\ ran' = Append(ran, "update_input")
    /\ IF host_session
       THEN /\ player_inputs' =
                   update_input_edit(player_inputs, current_editor_input, action_states)
            /\ current_editor_input' = None
            /\ written' = player_inputs'
            /\ sampled' = action_states
            /\ edits' = IF edits < 2 THEN edits + 1 ELSE edits
       ELSE UNCHANGED <<player_inputs, current_editor_input, written, sampled, edits>>
    /\ UNCHANGED <<host_session, held, menu_camera, world, playing, session_info, seen_input>>
    /\ UNCHANGED <<deadvars, audiovars>>
    /\ UNCHANGED restarted
    /\ UNCHANGED stopped

\* session.rs:141-143, no Session resource: update_game returns at once; and
\* session.rs:29-30, the host not in InGame / Playing: update_game is not run.
update_game_none ==
    /\ AtSystem("update_game")
    /\ ~(run_criteria("update_game") /\ host_session)
    /\ pc' = After("update_game")
    /\ ran' = IF run_criteria("update_game") THEN Append(ran, "update_game") ELSE ran
    /\ UNCHANGED <<host_session, held, menu_camera, world, playing, session_info>>
    /\ UNCHANGED <<deadvars, inputvars, audiovars>>
    /\ UNCHANGED restarted
    /\ UNCHANGED stopped

\* Mutant: the session is borrowed from the host world, not removed from it.
update_game_remove_peek ==
    /\ AtSystem("update_game")
    /\ run_criteria("update_game")
    /\ host_session
    /\ held' = TRUE
    /\ pre' = world
    /\ pc' = "input"
    /\ ran' = Append(ran, "update_game")
    /\ UNCHANGED <<host_session, menu_camera, world, twin, age_first, handled, phases,
                   dead_ticks, playing, session_info>>
    /\ UNCHANGED <<inputvars, audiovars>>
    /\ UNCHANGED restarted
    /\ UNCHANGED stopped

\* session.rs:141  world.remove_resource::<Session>()
update_game_remove ==
    /\ AtSystem("update_game")
    /\ run_criteria("update_game")
    /\ host_session
    /\ host_session' = FALSE
    /\ held' = TRUE
    /\ pre' = world
    /\ pc' = "input"
    /\ ran' = Append(ran, "update_game")
    /\ UNCHANGED <<menu_camera, world, twin, age_first, handled, phases, dead_ticks,
                   playing, session_info>>
    /\ UNCHANGED <<inputvars, audiovars>>
    /\ UNCHANGED restarted
    /\ UNCHANGED stopped

\* advance, phase 1: the input resource, as update_input left it, is what the
\* systems of this advance read.
advance_input ==
    /\ pc = "input"
    /\ phases' = Append(phases, "input")
    /\ seen_input' = player_inputs
    /\ pc' = IF age_first THEN "age" ELSE "transition"
    /\ UNCHANGED <<host_session, held, menu_camera, world, twin, age_first, pre, handled,
                   dead_ticks, playing, session_info, ran, player_inputs,
                   current_editor_input, written, edits>>
    /\ UNCHANGED audiovars
    /\ UNCHANGED restarted
    /\ UNCHANGED sampled
    /\ UNCHANGED stopped

\* advance: the aging of every PlayerState. The specification gives the +1 per
\* advance and not its place among the phases: age_first fixes, for a whole run,
\* whether it comes before the transitions or after the flush.
advance_age ==
    /\ pc = "age"
    /\ world' = update_player_state_age(world)
    /\ twin' = update_player_state_age(twin)
    /\ pc' = IF age_first THEN "transition" ELSE "insert"
    /\ UNCHANGED <<host_session, held, menu_camera, age_first, pre, handled, phases,
                   dead_ticks, playing, session_info, ran>>
    /\ UNCHANGED <<inputvars, audiovars>>
    /\ UNCHANGED restarted
    /\ UNCHANGED stopped

\* advance, phase 2: the transition systems.
advance_transition ==
    /\ pc = "transition"
    /\ \E o1, o2 \in Orders :
          /\ world' = player_state_transition(world, o1)
          /\ twin' = player_state_transition(twin, o2)
    /\ dead_ticks' =
          [e \in Ents |->
              IF e \in world'.entities /\ world'.player_states[e].current = ID
              THEN IF world.player_states[e].current = ID THEN dead_ticks[e] + 1 ELSE 0
              ELSE -1]
    /\ phases' = Append(phases, "transition")
    /\ pc' = "handler"
    /\ UNCHANGED <<host_session, held, menu_camera, age_first, pre, handled, playing,
                   session_info, ran>>
    /\ UNCHANGED <<inputvars, audiovars>>
    /\ UNCHANGED restarted
    /\ UNCHANGED stopped

\* advance, phase 3: the handler systems; burst is what the in-world systems of
\* this advance push on the audio event queue.
advance_handler(burst) ==
    /\ pc = "handler"
    /\ Len(pushed) + Len(burst) <= MaxSounds
    /\ \E o1, o2 \in Orders :
          /\ world' = handle_player_state(world, o1)
          /\ twin' = handle_player_state(twin, o2)
    /\ handled' = DeadHandled(world)
    /\ audio_events' = audio_events \o burst
    /\ pushed' = pushed \o burst
    /\ drains' = <<>>
    /\ phases' = Append(phases, "handler")
    /\ pc' = "flush"
    /\ UNCHANGED <<host_session, held, menu_camera, age_first, pre, dead_ticks, playing,
                   session_info, ran, played>>
    /\ UNCHANGED inputvars
    /\ UNCHANGED restarted
    /\ UNCHANGED stopped

\* advance, phase 4: the deferred despawns are flushed.
advance_flush ==
    /\ pc = "flush"
    /\ world' = flush_despawns(world)
    /\ twin' = flush_despawns(twin)
    /\ dead_ticks' = [e \in Ents |-> IF e \in world'.entities THEN dead_ticks[e] ELSE -1]
    /\ phases' = Append(phases, "flush")
    /\ pc' = IF age_first THEN "insert" ELSE "age"
    /\ UNCHANGED <<host_session, held, menu_camera, age_first, pre, handled, playing,
                   session_info, ran>>
    /\ UNCHANGED <<inputvars, audiovars>>
    /\ UNCHANGED restarted
    /\ UNCHANGED stopped

\* session.rs:148  world.insert_resource(session)
update_game_insert ==
    /\ pc = "insert"
    /\ host_session' = TRUE
    /\ held' = FALSE
    /\ pc' = After("update_game")
    /\ UNCHANGED <<menu_camera, world, twin, age_first, pre, handled, phases, dead_ticks,
                   playing, session_info, ran>>
    /\ UNCHANGED <<inputvars, audiovars>>
    /\ UNCHANGED restarted
    /\ UNCHANGED stopped

\* The last two elements of a sequence (the sequence itself when shorter).
LastTwo(s) == IF Len(s) <= 2 THEN s ELSE SubSeq(s, Len(s) - 1, Len(s))

\* Mutant: play_sounds reads the queue and leaves the events in it.
play_sounds_peek ==
    /\ AtSystem("play_sounds")
    /\ pc' = After("play_sounds")
    /\ ran' = Append(ran, "play_sounds")
    /\ IF host_session
       THEN /\ played' = played \o play_queue(audio_events)
            /\ drains' = LastTwo(Append(drains, audio_events))
            /\ UNCHANGED audio_events
       ELSE UNCHANGED <<audio_events, played, drains>>
    /\ UNCHANGED <<host_session, held, menu_camera, world, playing, session_info, pushed>>
    /\ UNCHANGED <<deadvars, inputvars>>
    /\ UNCHANGED restarted
    /\ UNCHANGED stopped

\* session.rs:152-178  play_sounds: the queue is drained and every event of it
\* played, front first.
play_sounds ==
    /\ AtSystem("play_sounds")
    /\ pc' = After("play_sounds")
    /\ ran' = Append(ran, "play_sounds")
    /\ IF host_session
       THEN /\ played' = played \o play_queue(audio_events)
            /\ drains' = LastTwo(Append(drains, audio_events))
            /\ audio_events' = <<>>
       ELSE UNCHANGED <<audio_events, played, drains>>
    /\ UNCHANGED <<host_session, held, menu_camera, world, playing, session_info, pushed>>
    /\ UNCHANGED <<deadvars, inputvars>>
    /\ UNCHANGED restarted
    /\ UNCHANGED stopped

\* The session stage has run its systems: the host goes on to its other stages.
stage_end ==
    /\ pc = "post"
    /\ pc' = "idle"
    /\ pre' = NoWorld
    /\ handled' = {}
    /\ phases' = <<>>
    /\ seen_input' = None
    /\ written' = None
    /\ ran' = <<>>
    /\ edits' = IF phases # <<>> THEN 0 ELSE edits
    /\ UNCHANGED <<host_session, held, menu_camera, world, twin, age_first, dead_ticks,
                   playing, session_info, player_inputs, current_editor_input>>
    /\ UNCHANGED audiovars
    /\ UNCHANGED restarted
    /\ UNCHANGED sampled
    /\ UNCHANGED stopped

\* A restart or a stop of the session, or one step of the session stage after
\* its first system, with the device states and the audio bursts the
\* environment may give.
Step(states, bursts) ==
    \/ restart
    \/ stop
    \/ \E action_states \in [Collectors -> states] : update_input(action_states)
    \/ update_game_none
    \/ update_game_remove
    \/ advance_input
    \/ advance_age
    \/ advance_transition
    \/ \E burst \in bursts : advance_handler(burst)
    \/ advance_flush
    \/ update_game_insert
    \/ play_sounds
    \/ stage_end

\* The match: sessions of two chosen players whose players get killed, with the
\* devices at rest and no sound.
Next ==
    \/ \E e \in Ents, hit_from \in HitFroms : PlayerKilledInsert(e, hit_from)
    \/ \E info \in MatchInfos : start(info)
    \/ ensure_2_players
    \/ Step({Released}, {<<>>})

Spec == Init /\ [][Next]_vars

\* The input side: sessions with any choice of players, the host entering and
\* leaving play, the editor at work, the devices in any state; no player is
\* killed, no sound is pushed, a session is started when there is none, and a
\* step starts while TicksInBound.
InputNext ==
    \/ \E b \in BOOLEAN : set_playing(b)
    \/ editor_action
    \/ \E info \in RosterInfos : ~host_session /\ start(info)
    \/ TicksInBound /\ ensure_2_players
    \/ Step(ActionStates, {<<>>})

\* The host-side specifications age PlayerState before the transitions.
HostInit == Init /\ age_first

InputSpec == HostInit /\ [][InputNext]_vars

\* The audio side: one match whose advances push any burst of events, the host
\* entering and leaving play; the devices are at rest.
AudioNext ==
    \/ \E b \in BOOLEAN : set_playing(b)
    \/ \E info \in MatchInfos \cap RosterInfos : start(info)
    \/ TicksInBound /\ ensure_2_players
    \/ Step({Released}, Bursts)

AudioSpec == HostInit /\ [][AudioNext]_vars

\* ------------------------------------- the dead state systems on any world
\* The functions from a subset of S to V: a component table over S.
Tables(S, V) == UNION {[D -> V] : D \in SUBSET S}

\* The ages a PlayerState is tried at.
FrameAges == {0, 1, DespawnAge}

\* The worlds the two systems of dead.rs are tried on: every entity has a sprite
\* and a transform; a PlayerState (in the spawn or the dead state), a
\* PlayerKilled marker and an animation bank it has or has not.
FrameWorlds ==
    [entities       : {Ents},
     player_states  : Tables(Ents, [current : {SpawnState, ID}, age : FrameAges]),
     killed_players : Tables(Ents, [hit_from : HitFroms]),
     sprites        : [Ents -> [flip_x : BOOLEAN]],
     transform      : {[e \in Ents |-> [x |-> (e - 1) % (MaxX + 1)]]},
     animations     : Tables(Ents, [current : {SpawnAnimation}]),
     player_events  : {<<>>}]

FrameInit ==
    /\ host_session = FALSE
    /\ held = TRUE
    /\ menu_camera = FALSE
    /\ world \in FrameWorlds
    /\ twin = NoWorld
    /\ age_first = TRUE
    /\ pc = "frame"
    /\ pre = NoWorld
    /\ handled = {}
    /\ phases = <<>>
    /\ dead_ticks = [e \in Ents |-> -1]
    /\ playing = TRUE
    /\ session_info = None
    /\ player_inputs = None
    /\ current_editor_input = None
    /\ audio_events = <<>>
    /\ seen_input = None
    /\ written = None
    /\ sampled = None
    /\ edits = 0
    /\ ran = <<>>
    /\ pushed = <<>>
    /\ played = <<>>
    /\ drains = <<>>
    /\ restarted = FALSE
    /\ stopped = FALSE

\* dead.rs:5-13 run on the world as it is, visiting the entities in order o.
frame_transition(o) ==
    /\ pc = "frame"
    /\ pre' = world
    /\ world' = player_state_transition(world, o)
    /\ pc' = "frame_transition"
    /\ UNCHANGED <<host_session, held, menu_camera, twin, age_first, handled, phases,
                   dead_ticks, playing, session_info, ran, restarted>>
    /\ UNCHANGED <<inputvars, audiovars>>
    /\ UNCHANGED stopped

\* dead.rs:15-53 run on the world as it is, or as the transition left it,
\* visiting the entities in order o.
frame_handler(o) ==
    /\ pc \in {"frame", "frame_transition"}
    /\ pre' = world
    /\ world' = handle_player_state(world, o)
    /\ pc' = "frame_handler"
    /\ UNCHANGED <<host_session, held, menu_camera, twin, age_first, handled, phases,
                   dead_ticks, playing, session_info, ran, restarted>>
    /\ UNCHANGED <<inputvars, audiovars>>
    /\ UNCHANGED stopped

FrameNext ==
    \/ \E o \in Orders : frame_transition(o)
    \/ \E o \in Orders : frame_handler(o)

FrameSpec == FrameInit /\ [][FrameNext]_vars

\* The life of a session: sessions with any choice of players, started,
\* restarted and stopped, the host entering and leaving play, players killed;
\* the devices are at rest, no sound is pushed, a step starts while
\* TicksInBound.
LifeNext ==
    \/ \E b \in BOOLEAN : set_playing(b)
    \/ \E e \in Ents, hit_from \in HitFroms : PlayerKilledInsert(e, hit_from)
    \/ \E info \in RosterInfos : start(info)
    \/ TicksInBound /\ ensure_2_players
    \/ Step({Released}, {<<>>})

LifeSpec == HostInit /\ [][LifeNext]_vars

\* ------------------------------------------------------------------ claims
\* update_game has returned from an advance (the session is checked in again and
\* the stage has not ended).
AfterAdvance == pc = "post" /\ phases # <<>>

\* The dead handler has just run in the advance under way.
AfterHandler == pc = "flush"

\* e got its PlayerKilled marker for the advance under way: the marker was there
\* when the advance began and e had a PlayerState that was not yet dead.
KilledThisTick(e) ==
    /\ e \in pre.entities
    /\ e \in DOMAIN pre.player_states
    /\ e \in DOMAIN pre.killed_players
    /\ pre.player_states[e].current # ID

\* e exists and its PlayerState is in the dead state.
IsDead(e) ==
    /\ e \in world.entities
    /\ e \in DOMAIN world.player_states
    /\ world.player_states[e].current = ID

\* The dead handler has a despawn request for e in the queue.
DespawnRequested(e) == e \in Range(world.player_events)

\* C1: every entity with a PlayerState that got a Killed marker for tick T has,
\* at the end of the advance of tick T, state.current = ID and state.age = 0.
C1_KilledIsDeadAtAgeZero ==
    AfterAdvance =>
        \A e \in Ents :
            KilledThisTick(e) /\ e \in world.entities =>
                /\ world.player_states[e].current = ID
                /\ world.player_states[e].age = 0

\* C2: an entity that entered the dead state at tick T is requested for despawn
\* in tick T+80 and in no other tick: when the handler has run in tick T+k, a
\* request for the entity is queued iff k = 80.
C2_DespawnExactlyAtTick80 ==
    AfterHandler =>
        \A e \in Ents :
            IsDead(e) => (DespawnRequested(e) <=> dead_ticks[e] = DespawnAge)

\* The animation the tie-break rule of the specification names, in its words.
RuleAnimation(e) ==
    LET facingRight == ~world.sprites[e].flip_x
        hit_from == world.killed_players[e].hit_from
        hitFromRight == world.transform[e].x < hit_from[1]
    IN  IF hit_from # None /\ ((facingRight /\ hitFromRight) \/ (~facingRight /\ ~hitFromRight))
        THEN DeathSpine
        ELSE DeathBelly

\* e is in the first tick of the dead state (age 0) and the handler has just run.
FirstDeadTick(e) ==
    /\ AfterHandler
    /\ e \in handled
    /\ world.player_states[e].age = 0

\* C3: on the first tick of the dead state the handler sets the spine animation
\* iff hit_from is recorded and the player faces the hit side
\* ((facingRight /\ hitFromRight) \/ (~facingRight /\ ~hitFromRight)), and the
\* belly animation in every other case.
C3_TieBreakRule ==
    \A e \in Ents : FirstDeadTick(e) => world.animations[e].current = RuleAnimation(e)

\* C3 witness: in one first dead tick the handler chose spine for one player and
\* belly, on equal x coordinates, for another.
C3_Witness ==
    \E e1, e2 \in Ents :
        /\ FirstDeadTick(e1) /\ world.animations[e1].current = DeathSpine
        /\ FirstDeadTick(e2) /\ world.animations[e2].current = DeathBelly
        /\ world.killed_players[e2].hit_from = Some(world.transform[e2].x)

\* e faces right (flip_x = false) in its first dead tick.
FirstDeadTickFacingRight(e) == FirstDeadTick(e) /\ ~world.sprites[e].flip_x

\* hit_from of e is recorded and its x is right of (d = 1) or left of (d = -1) e.
HitAtSide(e, d) ==
    LET hit_from == world.killed_players[e].hit_from
    IN  /\ hit_from # None
        /\ IF d = 1 THEN hit_from[1] > world.transform[e].x
                    ELSE hit_from[1] < world.transform[e].x

\* C4 as stated: facing right, a hit from the right gives belly, a hit from the
\* left gives spine, no hit origin gives belly.
C4_AsStated ==
    \A e \in Ents :
        FirstDeadTickFacingRight(e) =>
            /\ HitAtSide(e, 1) => world.animations[e].current = DeathBelly
            /\ HitAtSide(e, -1) => world.animations[e].current = DeathSpine
            /\ world.killed_players[e].hit_from = None =>
                   world.animations[e].current = DeathBelly

\* C4 amended: facing right, a hit from the right gives spine, a hit from the
\* left gives belly, no hit origin gives belly.
C4_FacingRightRule ==
    \A e \in Ents :
        FirstDeadTickFacingRight(e) =>
            /\ HitAtSide(e, 1) => world.animations[e].current = DeathSpine
            /\ HitAtSide(e, -1) => world.animations[e].current = DeathBelly
            /\ world.killed_players[e].hit_from = None =>
                   world.animations[e].current = DeathBelly

\* C4 witness: two players facing right in their first dead tick, one hit from
\* the right, one from the left.
C4_Witness ==
    \E e1, e2 \in Ents :
        /\ FirstDeadTickFacingRight(e1) /\ HitAtSide(e1, 1)
        /\ FirstDeadTickFacingRight(e2) /\ HitAtSide(e2, -1)

\* The host has just started a session: the world is a fresh one.
FreshWorld(w) == \E info \in Infos : w = GameSession_new(info)

\* C5: the dead state is terminal. Once state.current of an entity is ID it stays
\* ID in every later step in which the entity of that session still exists, and,
\* the fixed steps being run again and again, the entity is despawned.
C5_DeadIsTerminal ==
    /\ [][\A e \in Ents :
            IsDead(e) => \/ IsDead(e)'
                         \/ e \notin world'.entities
                         \/ FreshWorld(world')]_vars
    /\ \A e \in Ents : IsDead(e) ~> ~IsDead(e)

\* C5 witness: an entity that has stayed dead over later ticks has its despawn
\* requested.
C5_Witness ==
    \E e \in Ents : IsDead(e) /\ dead_ticks[e] >= 1 /\ DespawnRequested(e)

\* The phases of an advance, in the order the specification fixes.
PhaseOrder == <<"input", "transition", "handler", "flush">>

\* e had, when the advance began, all the components the dead handler joins on.
KilledBeforeTick(e) ==
    /\ e \in pre.entities
    /\ e \in DOMAIN pre.player_states
    /\ e \in DOMAIN pre.animations
    /\ e \in DOMAIN pre.killed_players

\* C6: every advance runs input, transitions, handlers, flush in this one order,
\* and the handler sees state.current only after the transitions of the tick: an
\* entity killed before the tick is handled as dead within the tick.
C6_FixedPhaseOrder ==
    /\ phases = SubSeq(PhaseOrder, 1, Len(phases))
    /\ AfterAdvance =>
          /\ phases = PhaseOrder
          /\ \A e \in Ents : KilledBeforeTick(e) => e \in handled

\* C6 witness: an advance has ended in which a player killed for this very tick
\* was handled as dead.
C6_Witness ==
    AfterAdvance /\ \E e \in Ents : KilledThisTick(e) /\ e \in handled

\* The component tables of w hold the same entities as those of v.
SameMembers(w, v) ==
    /\ w.entities = v.entities
    /\ DOMAIN w.player_states = DOMAIN v.player_states
    /\ DOMAIN w.killed_players = DOMAIN v.killed_players
    /\ DOMAIN w.sprites = DOMAIN v.sprites
    /\ DOMAIN w.transform = DOMAIN v.transform
    /\ DOMAIN w.animations = DOMAIN v.animations

\* No component of an entity of S is left in w.
NoComponentOf(w, S) ==
    /\ w.entities \cap S = {}
    /\ (DOMAIN w.player_states) \cap S = {}
    /\ (DOMAIN w.killed_players) \cap S = {}
    /\ (DOMAIN w.sprites) \cap S = {}
    /\ (DOMAIN w.transform) \cap S = {}
    /\ (DOMAIN w.animations) \cap S = {}

\* C7: despawn is deferred. While the transition and handler systems run, no
\* entity and no component goes; the handler only queues entity ids; the flush
\* after the handlers removes every requested entity with all its components,
\* and only those, in one step.
C7_DespawnDeferred ==
    [][/\ pc \in {"transition", "handler"} => SameMembers(world', world)
       /\ pc = "transition" => world'.player_events = world.player_events
       /\ pc = "handler" =>
             /\ Len(world'.player_events) >= Len(world.player_events)
             /\ SubSeq(world'.player_events, 1, Len(world.player_events)) = world.player_events
             /\ Range(world'.player_events) \subseteq world'.entities
       /\ pc = "flush" =>
             /\ world'.entities = world.entities \ Range(world.player_events)
             /\ NoComponentOf(world', Range(world.player_events))
             /\ DOMAIN world'.player_states =
                    (DOMAIN world.player_states) \ Range(world.player_events)
             /\ world'.player_events = <<>>]_vars

\* C7 witness: the handlers have run, two despawn requests are queued, and both
\* entities are still there with their components.
C7_Witness ==
    /\ pc = "flush"
    /\ Len(world.player_events) = 2
    /\ \A e \in Range(world.player_events) :
          e \in world.entities /\ e \in DOMAIN world.player_states

\* C8: an entity with a PlayerState and no Killed marker keeps state.current and
\* gains exactly 1 of state.age in each advance.
C8_UntouchedAges ==
    AfterAdvance =>
        \A e \in Ents :
            (/\ e \in pre.entities
             /\ e \in DOMAIN pre.player_states
             /\ e \notin DOMAIN pre.killed_players) =>
                /\ e \in world.entities
                /\ world.player_states[e].current = pre.player_states[e].current
                /\ world.player_states[e].age = pre.player_states[e].age + 1

\* C8 witness: an advance has ended that made one player dead and left another,
\* without marker, untouched.
C8_Witness ==
    /\ AfterAdvance
    /\ \E e, k \in Ents :
          /\ e \in pre.entities /\ e \notin DOMAIN pre.killed_players
          /\ pre.player_states[e].age >= 1
          /\ KilledThisTick(k)

\* C9: two runs from the same session with the same inputs (session starts and
\* kills) hold the same component states after every number of advances, however
\* each run's systems visit the entities.
C9_Deterministic ==
    pc \in {"idle", "post"} => world = twin

\* C9 witness: the two runs have visited the entities in different orders within
\* the advance under way (their request queues differ in order).
C9_Witness ==
    /\ pc = "flush"
    /\ Len(world.player_events) = 2
    /\ world.player_events # twin.player_events

\* The positions of the stage that lie inside update_game's call of advance.
AdvancePcs == {"input", "age", "transition", "handler", "flush", "insert"}

\* C10: the session is checked out for the whole advance and checked in after
\* it. During advance the Session resource is not in the host world (update_game
\* holds it), outside it nothing holds it, and after update_game the resource is
\* there iff it was there before: a step without a session changes nothing.
C10_SessionCheckedOut ==
    /\ pc \in AdvancePcs => held /\ ~host_session
    /\ pc \notin AdvancePcs => ~held
    /\ phases # <<>> => pc \in AdvancePcs \cup {"play_sounds", "post"}
    /\ pc = "post" /\ "update_game" \in Range(ran) => (host_session <=> phases # <<>>)
    /\ pc = "post" /\ "update_game" \in Range(ran) /\ phases = <<>> =>
          world = NoWorld /\ pre = NoWorld

\* C10 witness: the handlers run while update_game holds the session.
C10_Witness ==
    pc = "handler" /\ held /\ ~host_session /\ world.entities # {}

\* The advance under way has read the input resource.
InputSeen == pc \in (AdvancePcs \ {"input"}) \/ AfterAdvance

\* C11: within one fixed step the edit of update_input is applied before the
\* advance: what the advance reads is the PlayerInputs update_input wrote in
\* this very step, and, however many edits came since the last advance, the
\* last-written values and nothing of the earlier ones.
C11_AdvanceSeesLastInput ==
    InputSeen =>
        /\ written # None
        /\ seen_input = written
        /\ seen_input = player_inputs

\* C11 witness: the first advance of a session has ended after two or more
\* update_input edits; the edge of the jump button went into an earlier edit
\* (jump_just_pressed), and the advance read only the last one (jump held,
\* no edge).
C11_Witness ==
    /\ AfterAdvance
    /\ edits = 2
    /\ \A e \in pre.entities : pre.player_states[e].age = 0
    /\ seen_input[0].control.jump_pressed
    /\ ~seen_input[0].control.jump_just_pressed

\* C12 as stated: of two drains in a row with no advance in between, the first
\* yields a non-empty sequence and the second an empty one.
C12_AsStated ==
    Len(drains) = 2 => drains[1] # <<>> /\ drains[2] = <<>>

\* C12 amended: of two drains in a row with no advance in between the second
\* yields the empty sequence (the first yields whatever was queued, possibly
\* nothing); after a drain the queue is empty, every event pushed so far has
\* been handed on, and the queue stays empty until an advance pushes.
C12_SecondDrainEmpty ==
    /\ Len(drains) = 2 => drains[2] = <<>>
    /\ Len(drains) >= 1 => audio_events = <<>> /\ Len(played) = Len(pushed)
    /\ audio_events # <<>> => pc \in {"flush", "age", "insert", After("update_game")}

\* C12 witness: two drains with no advance in between, the first of which
\* yielded two events.
C12_Witness ==
    Len(drains) = 2 /\ Len(drains[1]) = 2 /\ drains[2] = <<>>

\* The sounds of a sequence of events, position by position.
SoundsOf(events) == [i \in 1..Len(events) |-> audio_play(events[i])]

\* C13: every audio event pushed inside the world is handed to the audio
\* channel exactly once and in the order of the pushes: at every moment the
\* sounds played so far, followed by the events still queued, are the events
\* pushed so far, in order; an event stays queued until play_sounds drains it,
\* and when the stage has run every pushed event has been played.
C13_FifoExactlyOnce ==
    /\ SoundsOf(pushed) = played \o SoundsOf(audio_events)
    /\ pc \in {"post", "idle"} => played = SoundsOf(pushed)

\* C13 witness: the stage has run, the last drain yielded two different events,
\* and an event of an earlier advance was played before them.
C13_Witness ==
    /\ pc = "post"
    /\ Len(played) = 3
    /\ Len(drains) = 1
    /\ Len(drains[1]) = 2
    /\ drains[1][1] # drains[1][2]
    /\ played[2] = audio_play(drains[1][1])
    /\ played[3] = audio_play(drains[1][2])

\* The roster of a PlayerInputs resource: who is active, with which player.
Roster(inputs) ==
    [p \in DOMAIN inputs |->
        [active |-> inputs[p].active, selected_player |-> inputs[p].selected_player]]

\* C14: a restart of a session leaves a world in which every state.age is 0 and
\* no entity has a Killed marker, and leaves the session's info (players chosen,
\* map) and the roster as they were; with no session, restart changes nothing
\* and no session comes to be.
C14_RestartResets ==
    [][restart =>
          IF host_session
          THEN /\ host_session'
               /\ world'.entities = Ents
               /\ \A e \in world'.entities : world'.player_states[e].age = 0
               /\ DOMAIN world'.killed_players = {}
               /\ session_info' = session_info
               /\ Roster(player_inputs') = Roster(player_inputs)
               /\ \A e \in Ents : world'.sprites[e].flip_x = session_info[1].flip_x[e]
               /\ menu_camera' = menu_camera
          ELSE /\ ~host_session'
               /\ world' = NoWorld
               /\ session_info' = None
               /\ player_inputs' = None
               /\ menu_camera' = menu_camera]_vars

\* C14 witness: a session with a killed player of age 1 or more has just been
\* restarted: all its players are back, at age 0 and without marker.
C14_Witness ==
    /\ restarted
    /\ host_session
    /\ world.entities = Ents
    /\ \A e \in Ents : world.player_states[e].age = 0 /\ e \notin DOMAIN world.killed_players

\* C15: when a session exists and the host is InGame / Playing, ensure_2_players
\* leaves at least one participant active: if none was active, participants 0
\* and 1, and only they, are made active, with players 0 and 1 of the core
\* metadata selected, and the other participants keep their roster entry; if
\* one was active, the whole roster stays as it was.
C15_EnsureTwoPlayers ==
    [][ensure_2_players /\ host_session /\ playing =>
          /\ \E p \in Participants : player_inputs'[p].active
          /\ IF \A p \in Participants : ~player_inputs[p].active
             THEN /\ \A p \in Participants : player_inputs'[p].active <=> p \in {0, 1}
                  /\ player_inputs'[0].selected_player = Some(core_meta_players[0])
                  /\ player_inputs'[1].selected_player = Some(core_meta_players[1])
                  /\ \A p \in Participants \ {0, 1} :
                        Roster(player_inputs')[p] = Roster(player_inputs)[p]
             ELSE Roster(player_inputs') = Roster(player_inputs)]_vars

\* C15 witness: ensure_2_players has run, in play, on a session started with no
\* player chosen: participants 0 and 1 are active, participant 2 is not.
C15_Witness ==
    /\ pc = After("ensure_2_players")
    /\ host_session
    /\ playing
    /\ \A p \in Participants : session_info[1].player_info[p] = None
    /\ player_inputs[0].active /\ player_inputs[0].selected_player = Some(0)
    /\ player_inputs[1].active /\ player_inputs[1].selected_player = Some(1)
    /\ ~player_inputs[2].active

\* C16: a fixed step makes exactly one advance (the four phases, once) when a
\* session exists and the host is InGame / Playing, and none otherwise;
\* update_input and play_sounds run in every step, ensure_2_players and
\* update_game only in play; and every step of the stage outside an advance
\* leaves every PlayerState (current and age) as it was.
C16_OneAdvancePerStep ==
    /\ [](pc = "post" =>
            /\ phases = IF host_session /\ playing THEN PhaseOrder ELSE <<>>
            /\ ran = IF playing THEN SessionStageOrder
                               ELSE <<"update_input", "play_sounds">>)
    /\ [][pc \notin AdvancePcs /\ pc' # pc =>
              world'.player_states = world.player_states]_vars

\* C16 witness: a step has gone by without advance, out of play, on a session
\* that has advanced before: update_input and play_sounds ran.
C16_Witness ==
    /\ pc = "post"
    /\ host_session
    /\ ~playing
    /\ phases = <<>>
    /\ ran = <<"update_input", "play_sounds">>
    /\ \E e \in world.entities : world.player_states[e].age >= 1

\* Every X_just_pressed flag of the PlayerInputs there are implies its X_pressed.
JustPressedIsPressed ==
    player_inputs # None =>
        \A p \in Participants :
            LET c == player_inputs[p].control
            IN  /\ c.jump_just_pressed => c.jump_pressed
                /\ c.grab_just_pressed => c.grab_pressed
                /\ c.shoot_just_pressed => c.shoot_pressed

\* C17: for jump, grab and shoot and every participant with a collector, an
\* update_input on a session leaves X_pressed equal to the button as the
\* collector reports it and X_just_pressed equal to (reported and not the
\* X_pressed of before); so X_just_pressed implies X_pressed after every step, and a
\* button reported held again after an edit that left it pressed gets
\* X_just_pressed = FALSE, whatever ran in between.
C17_EdgeDetection ==
    [][/\ JustPressedIsPressed'
       /\ AtSystem("update_input") /\ pc' # pc /\ host_session =>
                \A p \in Collectors :
                    LET old == player_inputs[p].control
                        new == player_inputs'[p].control
                        a == sampled'
                    IN  /\ new.jump_pressed = a[p].jump
                        /\ new.jump_just_pressed = (a[p].jump /\ ~old.jump_pressed)
                        /\ new.grab_pressed = a[p].grab
                        /\ new.grab_just_pressed = (a[p].grab /\ ~old.grab_pressed)
                        /\ new.shoot_pressed = a[p].shoot
                        /\ new.shoot_just_pressed = (a[p].shoot /\ ~old.shoot_pressed)
                        /\ (old.jump_pressed /\ a[p].jump => ~new.jump_just_pressed)
                        /\ (old.grab_pressed /\ a[p].grab => ~new.grab_just_pressed)
                        /\ (old.shoot_pressed /\ a[p].shoot => ~new.shoot_just_pressed)]_vars

\* C17 witness: update_input has just run, one edit after a step with an
\* advance: jump, held since an earlier edit, has no edge any more, while grab
\* has just got one and shoot is released.
C17_Witness ==
    /\ pc = After("update_input")
    /\ written # None
    /\ edits = 1
    /\ \E e \in world.entities : world.player_states[e].age >= 1
    /\ LET c == player_inputs[0].control
       IN  /\ c.jump_pressed /\ ~c.jump_just_pressed
           /\ c.grab_pressed /\ c.grab_just_pressed
           /\ ~c.shoot_pressed /\ ~c.shoot_just_pressed

\* C18: every entity the dead handler has requested for despawn has had its
\* animation set to death_spine or death_belly by that handler, in this tick or
\* an earlier one, whatever its state and age were before it was killed.
C18_DespawnedHasDeathAnimation ==
    \A e \in Ents :
        DespawnRequested(e) => world.animations[e].current \in {DeathSpine, DeathBelly}

\* The component tables of w other than the one named are those of v.
SameBut(w, v, table) ==
    /\ w.entities = v.entities
    /\ table # "player_states" => w.player_states = v.player_states
    /\ table # "animations" => w.animations = v.animations
    /\ w.killed_players = v.killed_players
    /\ w.sprites = v.sprites
    /\ w.transform = v.transform

\* e is no match of the handler in w, or not in the dead state.
NotForHandler(w, e) ==
    \/ e \notin DOMAIN w.player_states
    \/ e \notin DOMAIN w.killed_players
    \/ e \notin DOMAIN w.animations
    \/ w.player_states[e].current # ID

\* C19: the transition system changes nothing but state.current, and that only
\* of entities with a PlayerState and a Killed marker; the handler leaves
\* PlayerState, Killed, sprite and transform of every entity as they are, does
\* nothing to and queues no despawn of an entity that is not in the dead state
\* or has no Killed marker or no animation, and writes animation.current only
\* of an entity whose state.age is 0.
C19_FrameOfDeadSystems ==
    [][/\ pc' = "frame_transition" =>
             /\ SameBut(world', world, "player_states")
             /\ world'.player_events = world.player_events
             /\ DOMAIN world'.player_states = DOMAIN world.player_states
             /\ \A e \in DOMAIN world.player_states :
                   /\ world'.player_states[e].age = world.player_states[e].age
                   /\ world'.player_states[e] # world.player_states[e] =>
                          e \in DOMAIN world.killed_players
       /\ pc' = "frame_handler" =>
             /\ SameBut(world', world, "animations")
             /\ DOMAIN world'.animations = DOMAIN world.animations
             /\ \A e \in Ents :
                   NotForHandler(world, e) =>
                       /\ e \notin Range(world'.player_events)
                       /\ e \in DOMAIN world.animations =>
                              world'.animations[e] = world.animations[e]
             /\ \A e \in DOMAIN world.animations :
                   world'.animations[e] # world.animations[e] =>
                       world.player_states[e].age = 0]_vars

\* C19 witness: the handler has run on a world in which one dead, killed entity
\* of despawn age has no animation bank (no request is queued for it) and
\* another, dead at age 0, got its death animation.
C19_Witness ==
    /\ pc = "frame_handler"
    /\ \E e1, e2 \in Ents :
          /\ e1 \notin DOMAIN pre.animations
          /\ e1 \in DOMAIN pre.killed_players
          /\ e1 \in DOMAIN pre.player_states
          /\ pre.player_states[e1] = [current |-> ID, age |-> DespawnAge]
          /\ e1 \notin Range(world.player_events)
          /\ e2 \in DOMAIN pre.animations
          /\ pre.animations[e2].current = SpawnAnimation
          /\ world.animations[e2].current \in {DeathSpine, DeathBelly}

\* The menu camera is active iff there is no session (in the host world or in
\* update_game's hands).
CameraIffNoSession == menu_camera <=> ~(host_session \/ held)

\* C20: after every sequence of start, restart and stop calls the menu camera is
\* active iff no Session resource exists; start leaves a fresh session, whether
\* or not there was one, and the camera inactive; stop leaves no session and the
\* camera active; restart changes neither the camera nor whether a session exists.
C20_CameraIffNoSession ==
    [][/\ CameraIffNoSession /\ CameraIffNoSession'
       /\ pc' = "idle" => (menu_camera' <=> ~host_session')
       /\ session_info' # None =>
             LET info == session_info'[1]
             IN  start(info) =>
                     /\ host_session' /\ ~menu_camera'
                     /\ world' = GameSession_new(info)
                     /\ player_inputs' = PlayerInputs_new(info)
       /\ stop => ~host_session' /\ menu_camera' /\ world' = NoWorld
       /\ restart => /\ host_session' = host_session
                     /\ menu_camera' = menu_camera]_vars

\* C20 witness: a session has just been stopped: no session is left and the
\* menu camera is active.
C20_Witness ==
    /\ stopped
    /\ ~host_session
    /\ menu_camera
    /\ world = NoWorld

\* The fixed timestep runs the session stage again and again.
FixedStep ==
    \/ ensure_2_players
    \/ update_input([p \in Collectors |-> Released])
    \/ update_game_none
    \/ update_game_remove
    \/ advance_input
    \/ advance_age
    \/ advance_transition
    \/ advance_handler(<<>>)
    \/ advance_flush
    \/ update_game_insert
    \/ play_sounds
    \/ stage_end

\* The match on a map that flips no spawn.
LiveNext ==
    \/ \E e \in Ents, hit_from \in HitFroms : PlayerKilledInsert(e, hit_from)
    \/ \E info \in MatchInfos \cap RosterInfos : start(info)
    \/ ensure_2_players
    \/ Step({Released}, {<<>>})

LiveSpec == Init /\ [][LiveNext]_vars /\ WF_vars(FixedStep)

====
